---- MODULE Spec2Model ----
(***************************************************************************)
(* State-machine model of scoresaber-crawler (src/src/main.rs).            *)
(*                                                                         *)
(*   main: open the database, create the schema, scrape_all_songs (pull    *)
(*   every song of the paginated remote listing through the iterator of    *)
(*   get_ranked_songs and REPLACE it into the table), then                 *)
(*   make_beatsaber_playlist, save_beatsaber_playlist, close.              *)
(*                                                                         *)
(* Two specifications share the variables:                                 *)
(*   Spec      the whole program, main() from its first statement;         *)
(*   IterSpec  the iterator returned by get_ranked_songs driven by an      *)
(*             arbitrary consumer that may keep pulling after any result.  *)
(***************************************************************************)
EXTENDS Integers, Sequences, FiniteSets, TLC

(***************************************************************************)
(* Bounds of the model.                                                    *)
(***************************************************************************)
\* get_ranked_songs_page::LIMIT, the requested page size (1000 in the
\* source), scaled down.
LIMIT == 2
\* The remote listing has at most MaxPage pages: the page with this index is
\* never answered with a full batch.
MaxPage == 2
\* Width of ScoreSaberSongId / beats_per_minute (u64 in the source) and of the
\* SQLite INTEGER they are cast to (i64), scaled down.
IntBits == 20
\* Number of pulls the arbitrary consumer of IterSpec makes at most.
MaxPulls == 6

(***************************************************************************)
(* Data: ScoreSaberSong, modelled on tests::SONGS (stars in hundredths).   *)
(***************************************************************************)
Pow2(n) == 2 ^ n

\* The largest id the unsigned type holds; its cast to the signed type is -1.
MaxUnsigned == Pow2(IntBits) - 1

ScoreSaberSong(uid, id, name, bpm, diff, stars) ==
    [uid |-> uid, id |-> id, name |-> name, sub_name |-> "",
     song_author |-> "SOOOO", level_author |-> "Hexagonial",
     beats_per_minute |-> bpm, difficulty |-> diff, star_difficulty |-> stars]

\* tests::SONGS[1], SONGS[2] and SONGS[3].
Song1 == ScoreSaberSong(101208, "7719", "Happppy song", 226,
                        "_ExpertPlus_SoloStandard", 972)
Song2 == ScoreSaberSong(109086, "CFCA", "Milk Crown on Sonnetica", 255,
                        "_ExpertPlus_SoloStandard", 1008)
Song3 == ScoreSaberSong(100024, "762B", "NUCLEAR-STAR", 199,
                        "_ExpertPlus_SoloStandard", 938)
\* Another difficulty of the song of Song1: the same hash under its own uid
\* (the largest one), with the stars of Song3.
Song4 == ScoreSaberSong(MaxUnsigned, "7719", "Happppy song (Hard)", 226,
                        "_Hard_SoloStandard", 938)
\* The leaderboard of Song1 after a remap: the same uid, every other column
\* changed, now a difficulty of the song of Song3 and level with it.
Song5 == ScoreSaberSong(101208, "762B", "NUCLEAR-STAR (remap)", MaxUnsigned,
                        "_Expert_SoloStandard", 938)

\* A value of the song type that stands where a result carries no song.
NoSong == ScoreSaberSong(0, "", "", 0, "", 0)

\* The songs the remote listing serves.
RemoteSongs == {Song1, Song5}

\* The songs earlier runs may have left in the database file.
StoredSongs == {Song2, Song3, Song4}

RECURSIVE SeqsUpTo(_, _)
\* All sequences over S of length 0..n.
SeqsUpTo(S, n) ==
    IF n = 0 THEN {<<>>}
    ELSE LET shorter == SeqsUpTo(S, n - 1)
         IN  shorter \cup {Append(q, x) : q \in {r \in shorter : Len(r) = n - 1}, x \in S}

(***************************************************************************)
(* The remote page client: what one GET of get_ranked_songs_page meets.    *)
(***************************************************************************)
\* A response body: malformed JSON, or a "songs" array.
Body(valid, songs) == [valid |-> valid, songs |-> songs]

\* The answer of the remote side to one request: send() fails, or a response
\* with a status and a body arrives.
Http(sent, success, body) == [sent |-> sent, success |-> success, body |-> body]

\* The server may answer with any batch of 0..LIMIT+1 songs (tests: 4 songs
\* for a limit of 3); the last page of the listing is never a full one.
Batches(page) ==
    {b \in SeqsUpTo(RemoteSongs, LIMIT + 1) : page >= MaxPage => Len(b) < LIMIT}

HttpAnswers(page) ==
    {Http(FALSE, FALSE, Body(FALSE, <<>>)),
     Http(TRUE, FALSE, Body(FALSE, <<>>)),
     Http(TRUE, TRUE, Body(FALSE, <<>>))}
    \cup {Http(TRUE, TRUE, Body(TRUE, b)) : b \in Batches(page)}

\* Result_<RankedSongsPage>: Ok(RankedSongsPage {songs, last_page}) or Err.
OkPage(songs, last) == [ok |-> TRUE, err |-> "", songs |-> songs, last_page |-> last]
ErrPage(err) == [ok |-> FALSE, err |-> err, songs |-> <<>>, last_page |-> FALSE]

extract_ranked_songs_page_Le(response, limit) ==
    IF ~response.valid THEN ErrPage("decode")
    ELSE OkPage(response.songs, Len(response.songs) <= limit)

extract_ranked_songs_page_Truncate(response, limit) ==
    IF ~response.valid THEN ErrPage("decode")
    ELSE OkPage(SubSeq(response.songs, 1, limit), Len(response.songs) < limit)

extract_ranked_songs_page(response, limit) ==
    IF ~response.valid THEN ErrPage("decode")
    ELSE OkPage(response.songs, Len(response.songs) < limit)

get_ranked_songs_page(http, page) ==
    IF ~http.sent THEN ErrPage("send")
    ELSE IF http.success THEN extract_ranked_songs_page(http.body, LIMIT)
    ELSE ErrPage("status")

(***************************************************************************)
(* get_ranked_songs: the iterator.  Option<u64> is a sequence of length    *)
(* at most one; Option<Result_<ScoreSaberSong>> is a record.               *)
(***************************************************************************)
None == <<>>
Some(x) == <<x>>

ItemOk(song) == [kind |-> "Ok", song |-> song, err |-> ""]
ItemErr(err) == [kind |-> "Err", song |-> NoSong, err |-> err]
ItemNone == [kind |-> "None", song |-> NoSong, err |-> ""]
\* Not a result of next(): the answers handed to Iter_next ran out.
ItemStuck == [kind |-> "Stuck", song |-> NoSong, err |-> ""]

\* What next() leaves and returns: the fields of Iter, the returned item, the
\* requests it made (page and result, in order) and the answers it did not use.
Step(songs, next_page, item, fetched, rest) ==
    [songs |-> songs, next_page |-> next_page, item |-> item,
     fetched |-> fetched, rest |-> rest]

AdvancePage_Skip(page, last_page) == IF last_page THEN None ELSE Some(page + 2)

AdvancePage_Always(page, last_page) == Some(page + 1)

\* The page cursor after a successful fetch of `page`.
AdvancePage(page, last_page) == IF last_page THEN None ELSE Some(page + 1)

FetchFailed_Fused(songs, next_page, req, rest) ==
    Step(songs, None, ItemErr(req.response.err), <<req>>, rest)

FetchFailed_Advance(songs, next_page, req, rest) ==
    Step(songs, Some(req.page + 1), ItemErr(req.response.err), <<req>>, rest)

FetchFailed_Swallow(songs, next_page, req, rest) ==
    Step(songs, None, ItemNone, <<req>>, rest)

\* The Err arm of next(): the error is returned, the fields are left as they are.
FetchFailed(songs, next_page, req, rest) ==
    Step(songs, next_page, ItemErr(req.response.err), <<req>>, rest)

TakeSong_Pop(songs, next_page, https) ==
    Step(SubSeq(songs, 1, Len(songs) - 1), next_page, ItemOk(songs[Len(songs)]),
         <<>>, https)

\* The Some(song) arm of next(): the buffer gives its first song.
TakeSong(songs, next_page, https) ==
    Step(Tail(songs), next_page, ItemOk(Head(songs)), <<>>, https)

Exhausted_Restart(songs, next_page, https) ==
    Step(songs, Some(1), ItemNone, <<>>, https)

\* The None arm of next(): the buffer is empty and no page is pending.
Exhausted(songs, next_page, https) ==
    Step(songs, next_page, ItemNone, <<>>, https)

RECURSIVE Iter_next_Eager(_, _, _)
Iter_next_Eager(songs, next_page, https) ==
    IF Len(songs) > 1 \/ (songs # <<>> /\ next_page = None) THEN
        TakeSong(songs, next_page, https)
    ELSE IF songs = <<>> /\ next_page = None THEN
        Exhausted(songs, next_page, https)
    ELSE IF https = <<>> THEN
        Step(songs, next_page, ItemStuck, <<>>, https)
    ELSE
        LET page == next_page[1]
            response == get_ranked_songs_page(Head(https), page)
            req == [page |-> page, response |-> response]
        IN  IF songs # <<>> THEN
                IF response.ok THEN
                    Step(response.songs, AdvancePage(page, response.last_page),
                         ItemOk(Head(songs)), <<req>>, Tail(https))
                ELSE
                    Step(<<>>, next_page, ItemOk(Head(songs)), <<req>>, Tail(https))
            ELSE IF response.ok THEN
                LET rec == Iter_next_Eager(response.songs,
                                           AdvancePage(page, response.last_page),
                                           Tail(https))
                IN  [rec EXCEPT !.fetched = <<req>> \o rec.fetched]
            ELSE
                FetchFailed(songs, next_page, req, Tail(https))

RECURSIVE Iter_next(_, _, _)
\* Iter::next on the fields (songs, next_page); https are the answers of the
\* remote side to the requests this call makes, in order.
Iter_next(songs, next_page, https) ==
    IF songs # <<>> THEN
        TakeSong(songs, next_page, https)
    ELSE IF next_page = None THEN
        Exhausted(songs, next_page, https)
    ELSE IF https = <<>> THEN
        Step(songs, next_page, ItemStuck, <<>>, https)
    ELSE
        LET page == next_page[1]
            response == get_ranked_songs_page(Head(https), page)
            req == [page |-> page, response |-> response]
        IN  IF response.ok THEN
                LET rec == Iter_next(response.songs,
                                     AdvancePage(page, response.last_page),
                                     Tail(https))
                IN  [rec EXCEPT !.fetched = <<req>> \o rec.fetched]
            ELSE
                FetchFailed(songs, next_page, req, Tail(https))

\* The answers one call of next() can meet: none if it makes no request, one
\* per request otherwise (LIMIT >= 1: an empty batch is a last page, so the
\* nested call makes no second request).
AnswerSeqs(next_page) ==
    {<<>>} \cup (IF next_page = None THEN {}
                 ELSE {<<h>> : h \in HttpAnswers(next_page[1])})

\* The outcomes of one call of next() in the state (songs, next_page).
NextOutcomes(songs, next_page) ==
    {r \in {Iter_next(songs, next_page, https) : https \in AnswerSeqs(next_page)} :
        r.item.kind # "Stuck" /\ r.rest = <<>>}

(***************************************************************************)
(* The catalog store: table scoresaber_songs, a set of rows.               *)
(***************************************************************************)
\* `x as i64` of an unsigned value.
AsI64(x) == IF x >= Pow2(IntBits - 1) THEN x - Pow2(IntBits) ELSE x

\* rusqlite::params! of insert_song_into_db: the row of a song.
Params(song) ==
    [uid |-> AsI64(song.uid), id |-> song.id, name |-> song.name,
     songSubName |-> song.sub_name, songAuthorName |-> song.song_author,
     levelAuthorName |-> song.level_author, bpm |-> AsI64(song.beats_per_minute),
     diff |-> song.difficulty, stars |-> song.star_difficulty]

ReplaceInto_Truncate(table, row) == {row}

ReplaceInto_KeepFirst(table, row) ==
    IF \E r \in table : r.uid = row.uid THEN table ELSE table \cup {row}

ReplaceInto_Insert(table, row) == table \cup {row}

\* REPLACE INTO on a table whose only uniqueness constraint is uid (PRIMARY
\* KEY, UNIQUE): the rows in conflict are deleted, the new row is inserted.
ReplaceInto(table, row) == {r \in table : r.uid # row.uid} \cup {row}

\* What the storage engine does with one REPLACE statement: prepare() fails,
\* execute() fails, or execute() returns the number of rows it changed (0: the
\* engine wrote nothing).
Store(prepared, executed, changes) ==
    [prepared |-> prepared, executed |-> executed, changes |-> changes]

StoreAnswers ==
    {Store(FALSE, FALSE, 0), Store(TRUE, FALSE, 0), Store(TRUE, TRUE, 0),
     Store(TRUE, TRUE, 1)}

insert_song_into_db_NoCheck(table, song, store) ==
    IF ~store.prepared THEN [ok |-> FALSE, err |-> "prepare", table |-> table]
    ELSE IF ~store.executed THEN [ok |-> FALSE, err |-> "execute", table |-> table]
    ELSE [ok |-> TRUE, err |-> "",
          table |-> IF store.changes = 1 THEN ReplaceInto(table, Params(song))
                    ELSE table]

\* Result_<()> of insert_song_into_db, with the table it leaves.
insert_song_into_db(table, song, store) ==
    IF ~store.prepared THEN [ok |-> FALSE, err |-> "prepare", table |-> table]
    ELSE IF ~store.executed THEN [ok |-> FALSE, err |-> "execute", table |-> table]
    ELSE LET rows_affected == store.changes
             written == IF store.changes = 1 THEN ReplaceInto(table, Params(song))
                        ELSE table
         IN  IF rows_affected # 1
             THEN [ok |-> FALSE, err |-> "rows_affected is not 1", table |-> written]
             ELSE [ok |-> TRUE, err |-> "", table |-> written]

(***************************************************************************)
(* make_beatsaber_playlist:                                                *)
(*   SELECT id,name FROM scoresaber_songs GROUP BY id ORDER BY MAX(stars)  *)
(*   DESC                                                                  *)
(***************************************************************************)
\* The orders in which a scan may deliver the rows of a table.
ScanOrders(table) ==
    {f \in [1..Cardinality(table) -> table] :
        \A i, j \in 1..Cardinality(table) : i # j => f[i] # f[j]}

Accumulate_FirstRow(groups, row) ==
    IF row.id \notin DOMAIN groups THEN
        [k \in DOMAIN groups \cup {row.id} |->
            IF k = row.id THEN [id |-> row.id, name |-> row.name, max |-> row.stars]
            ELSE groups[k]]
    ELSE IF row.stars > groups[row.id].max THEN
        [groups EXCEPT ![row.id].max = row.stars]
    ELSE groups

\* One row into its group: a new group starts with the row; in a group the
\* bare column name follows the row that raises MAX(stars).
Accumulate(groups, row) ==
    IF row.id \notin DOMAIN groups THEN
        [k \in DOMAIN groups \cup {row.id} |->
            IF k = row.id THEN [id |-> row.id, name |-> row.name, max |-> row.stars]
            ELSE groups[k]]
    ELSE IF row.stars > groups[row.id].max THEN
        [groups EXCEPT ![row.id] = [id |-> row.id, name |-> row.name, max |-> row.stars]]
    ELSE groups

RECURSIVE GroupBy(_, _)
\* GROUP BY id over the rows of a scan, in its order.
GroupBy(scan, groups) ==
    IF scan = <<>> THEN groups
    ELSE GroupBy(Tail(scan), Accumulate(groups, Head(scan)))

OrderedDesc_Asc(out) == \A i, j \in 1..Len(out) : i < j => out[i].max <= out[j].max

\* ORDER BY MAX(stars) DESC: is the sequence of groups in that order?
OrderedDesc(out) == \A i, j \in 1..Len(out) : i < j => out[i].max >= out[j].max

\* The result rows of the query for one scan: every group once, in order
\* (groups of equal MAX in either order).
OrderBy(groups) ==
    {out \in [1..Cardinality(DOMAIN groups) -> {groups[k] : k \in DOMAIN groups}] :
        /\ \A i, j \in 1..Len(out) : i # j => out[i].id # out[j].id
        /\ OrderedDesc(out)}

\* BeatSaberPlaylistSong of a result row.
BeatSaberPlaylistSong(row) == [name |-> row.name, hash |-> row.id]

\* playlist.songs for every scan order and every order of equal groups.
Playlists(table) ==
    {[i \in 1..Len(out) |-> BeatSaberPlaylistSong(out[i])] :
        out \in UNION {OrderBy(GroupBy(scan, <<>>)) : scan \in ScanOrders(table)}}

(***************************************************************************)
(* State.                                                                  *)
(***************************************************************************)
VARIABLES
    pc,          \* where main() stands
    songs,       \* Iter.songs: what is left of the page fetched last
    next_page,   \* Iter.next_page
    song,        \* scrape_all_songs: the song of the current iteration
    db,          \* the rows of scoresaber_songs in beatsaber.sqlite
    db0,         \* history: the rows when main() started
    playlist,    \* the songs of the playlist make_beatsaber_playlist returned
    file,        \* ranked_songs.json
    error,       \* the error main() returned, "" if none
    fetched,     \* history: the requests made: page, result, number of the pull
    outs,        \* history: the items next() returned, in order
    inserts,     \* history: the calls of insert_song_into_db: song, what the
                 \* storage engine did, result
    aggregated,  \* history: make_beatsaber_playlist has been called
    decoded      \* the call of extract_ranked_songs_page made on its own:
                 \* response, limit and result

vars == <<pc, songs, next_page, song, db, db0, playlist, file, error, fetched,
          outs, inserts, aggregated, decoded>>

\* The tables beatsaber.sqlite may hold when main() starts: one row per uid.
InitTables ==
    {t \in SUBSET {Params(s) : s \in StoredSongs} :
        \A r1, r2 \in t : r1.uid = r2.uid => r1 = r2}

\* ranked_songs.json: as it was before the run, created and empty, cut short
\* in the middle of the document, or the whole document.
Untouched == [state |-> "untouched", songs |-> <<>>]
Truncated == [state |-> "truncated", songs |-> <<>>]
Partial(p) == [state |-> "partial", songs |-> p]
Complete(p) == [state |-> "complete", songs |-> p]

\* No call of extract_ranked_songs_page on its own has been made.
NotDecoded == [called |-> FALSE, response |-> Body(FALSE, <<>>), limit |-> 0,
               result |-> ErrPage("")]

Init ==
    /\ pc = "open"
    /\ songs = <<>>
    /\ next_page = Some(1)
    /\ song = NoSong
    /\ db \in InitTables
    /\ db0 = db
    /\ playlist = <<>>
    /\ file = Untouched
    /\ error = ""
    /\ fetched = <<>>
    /\ outs = <<>>
    /\ inserts = <<>>
    /\ aggregated = FALSE
    /\ decoded = NotDecoded

\* main() returns Err(e).
Fail(e) == pc' = "failed" /\ error' = e

(***************************************************************************)
(* main, statement by statement.                                           *)
(***************************************************************************)
\* rusqlite::Connection::open(DATABASE_PATH)?
Open ==
    /\ pc = "open"
    /\ \/ pc' = "schema" /\ error' = error
       \/ Fail("open")
    /\ UNCHANGED <<db0, decoded, songs, next_page, song, db, playlist, file, fetched, outs,
                   inserts, aggregated>>

\* db.execute(DATABASE_SCHEMA)?: CREATE TABLE IF NOT EXISTS keeps the rows.
CreateSchema ==
    /\ pc = "schema"
    /\ \/ pc' = "pull" /\ error' = error
       \/ Fail("schema")
    /\ UNCHANGED <<db0, decoded, songs, next_page, song, db, playlist, file, fetched, outs,
                   inserts, aggregated>>

\* One call of Iter::next with outcome r: the fields and the histories.
Pulled(r) ==
    /\ songs' = r.songs
    /\ next_page' = r.next_page
    /\ fetched' = fetched \o [i \in 1..Len(r.fetched) |->
                                [page |-> r.fetched[i].page,
                                 response |-> r.fetched[i].response,
                                 pull |-> Len(outs) + 1]]
    /\ outs' = Append(outs, r.item)

\* scrape_all_songs: the for loop asks the iterator for the next item;
\* `song_result?` returns the error, None ends the loop.
ScrapePull ==
    /\ pc = "pull"
    /\ \E r \in NextOutcomes(songs, next_page) :
        /\ Pulled(r)
        /\ \/ r.item.kind = "Ok" /\ song' = r.item.song /\ pc' = "insert"
              /\ error' = error
           \/ r.item.kind = "Err" /\ song' = song /\ Fail(r.item.err)
           \/ r.item.kind = "None" /\ song' = song /\ pc' = "playlist"
              /\ error' = error
    /\ UNCHANGED <<db0, decoded, db, playlist, file, inserts, aggregated>>

ScrapeInsert_Continue ==
    /\ pc = "insert"
    /\ \E store \in StoreAnswers :
        LET res == insert_song_into_db(db, song, store)
        IN  /\ db' = res.table
            /\ inserts' = Append(inserts, [song |-> song, store |-> store, ok |-> res.ok])
            /\ pc' = "pull"
            /\ error' = error
    /\ UNCHANGED <<db0, decoded, songs, next_page, song, playlist, file, fetched, outs, aggregated>>

\* scrape_all_songs: insert_song_into_db(db, &song)?
ScrapeInsert ==
    /\ pc = "insert"
    /\ \E store \in StoreAnswers :
        LET res == insert_song_into_db(db, song, store)
        IN  /\ db' = res.table
            /\ inserts' = Append(inserts, [song |-> song, store |-> store, ok |-> res.ok])
            /\ \/ res.ok /\ pc' = "pull" /\ error' = error
               \/ ~res.ok /\ Fail(res.err)
    /\ UNCHANGED <<db0, decoded, songs, next_page, song, playlist, file, fetched, outs, aggregated>>

\* make_beatsaber_playlist(&db)?: the query fails, or returns its rows.
MakePlaylist ==
    /\ pc = "playlist"
    /\ aggregated' = TRUE
    /\ \/ \E p \in Playlists(db) :
            playlist' = p /\ pc' = "save" /\ error' = error
       \/ playlist' = playlist /\ Fail("query")
    /\ UNCHANGED <<db0, decoded, songs, next_page, song, db, file, fetched, outs, inserts>>

\* save_beatsaber_playlist(playlist)?: File::create fails and leaves the file;
\* or it truncates the file and to_writer_pretty writes the document, all of
\* it or, when a write fails, a part of it.
SavePlaylist ==
    /\ pc = "save"
    /\ \/ file' = file /\ Fail("create")
       \/ file' = Truncated /\ Fail("write")
       \/ \E n \in 1..Len(playlist) :
            file' = Partial(SubSeq(playlist, 1, n - 1)) /\ Fail("write")
       \/ file' = Complete(playlist) /\ pc' = "close" /\ error' = error
    /\ UNCHANGED <<db0, decoded, songs, next_page, song, db, playlist, fetched, outs, inserts,
                   aggregated>>

\* db.close().map_err(..)
Close ==
    /\ pc = "close"
    /\ \/ pc' = "done" /\ error' = error
       \/ Fail("close")
    /\ UNCHANGED <<db0, decoded, songs, next_page, song, db, playlist, file, fetched, outs,
                   inserts, aggregated>>

Next ==
    \/ Open
    \/ CreateSchema
    \/ ScrapePull
    \/ ScrapeInsert
    \/ MakePlaylist
    \/ SavePlaylist
    \/ Close

Spec == Init /\ [][Next]_vars

(***************************************************************************)
(* Run after run: the program is started again on the database file and    *)
(* the playlist file the run before has left.                              *)
(***************************************************************************)
\* A new process enters main(): the table is what the last run left, every
\* local is fresh, and ranked_songs.json is from now on told against what it
\* holds at this start.
Rerun ==
    /\ pc \in {"done", "failed"}
    /\ pc' = "open"
    /\ songs' = <<>>
    /\ next_page' = Some(1)
    /\ song' = NoSong
    /\ db0' = db
    /\ playlist' = <<>>
    /\ file' = Untouched
    /\ error' = ""
    /\ fetched' = <<>>
    /\ outs' = <<>>
    /\ inserts' = <<>>
    /\ aggregated' = FALSE
    /\ UNCHANGED <<db, decoded>>

RunsNext ==
    \/ Next
    \/ Rerun

\* The first run of the sequence starts on a database file that is new or
\* holds the row of one leaderboard the listing does not serve; the tables of
\* the later runs are whatever the runs before them left.
RunsInit == Init /\ db \subseteq {Params(Song2)}

RunsSpec == RunsInit /\ [][RunsNext]_vars

(***************************************************************************)
(* The iterator of get_ranked_songs under an arbitrary consumer, which     *)
(* calls next() again whatever the last call returned.                     *)
(***************************************************************************)
ConsumerPull ==
    /\ Len(outs) < MaxPulls
    /\ \E r \in NextOutcomes(songs, next_page) : Pulled(r)
    /\ UNCHANGED <<db0, decoded, pc, song, db, playlist, file, error, inserts, aggregated>>

IterNext == ConsumerPull

IterSpec == Init /\ [][IterNext]_vars

(***************************************************************************)
(* extract_ranked_songs_page on its own, as its test calls it: any payload *)
(* with any limit.                                                         *)
(***************************************************************************)
\* The payloads: malformed JSON, or up to LIMIT + 2 songs (the test: 4 songs
\* for a limit of 3).
Payloads ==
    {Body(FALSE, <<>>)} \cup {Body(TRUE, b) : b \in SeqsUpTo(RemoteSongs, LIMIT + 2)}

Extract ==
    /\ \E response \in Payloads, limit \in 0..(LIMIT + 1) :
        decoded' = [called |-> TRUE, response |-> response, limit |-> limit,
                    result |-> extract_ranked_songs_page(response, limit)]
    /\ UNCHANGED <<pc, songs, next_page, song, db, db0, playlist, file, error,
                   fetched, outs, inserts, aggregated>>

ExtractNext == Extract

ExtractSpec == Init /\ [][ExtractNext]_vars

(***************************************************************************)
(* Properties.                                                             *)
(***************************************************************************)
Last(s) == s[Len(s)]

\* The request made last and the item returned last.
LastFetch == Last(fetched)
LastOut == Last(outs)

\* C1: the pages requested are 1, 2, 3, ... in that order: the first request
\* is for page 1; the request that follows a successful one is for the next
\* page (no page is skipped, none is requested again); only a failed request
\* is followed by a request for the same page; and after a successful fetch
\* of page p with exactly LIMIT songs the cursor stands at p + 1.
C1_PagesInOrder ==
    /\ fetched # <<>> => fetched[1].page = 1
    /\ \A i \in 1..(Len(fetched) - 1) :
        fetched[i + 1].page =
            IF fetched[i].response.ok THEN fetched[i].page + 1 ELSE fetched[i].page
    /\ (/\ fetched # <<>>
        /\ LastFetch.response.ok
        /\ Len(LastFetch.response.songs) = LIMIT)
       => next_page = Some(LastFetch.page + 1)

\* Page 1 came back with exactly LIMIT songs and page 2 was requested next,
\* with no failed request in between.
C1_Witness ==
    /\ Len(fetched) >= 2
    /\ fetched[1].response.ok
    /\ Len(fetched[1].response.songs) = LIMIT
    /\ fetched[2].page = 2
    /\ fetched[2].response.ok

\* C2: a successfully fetched page with fewer than LIMIT songs is the last
\* one: no request follows it, next_page is None, and from the pull that
\* fetched it on the iterator returns that page's songs, in order, and then
\* None.
C2_ShortPageEnds ==
    \A i \in 1..Len(fetched) :
        LET f == fetched[i]
            batch == f.response.songs
        IN  (f.response.ok /\ Len(batch) < LIMIT) =>
                /\ i = Len(fetched)
                /\ next_page = None
                /\ \A k \in f.pull..Len(outs) :
                    outs[k] = IF k - f.pull + 1 <= Len(batch)
                              THEN ItemOk(batch[k - f.pull + 1])
                              ELSE ItemNone
                /\ songs = SubSeq(batch, Len(outs) - f.pull + 2, Len(batch))

\* A short page that is not empty was fetched after a full one, all its songs
\* were returned and the pull after them returned None.
C2_Witness ==
    /\ Len(fetched) = 2
    /\ LastFetch.response.ok
    /\ Len(LastFetch.response.songs) < LIMIT
    /\ Len(LastFetch.response.songs) >= 1
    /\ Len(outs) = LastFetch.pull + Len(LastFetch.response.songs)
    /\ LastOut = ItemNone

\* The requests made in pull number k.
FetchesOfPull(k) == {i \in 1..Len(fetched) : fetched[i].pull = k}

\* C3, as claimed: after a failure result every later pull returns None and
\* no later request is made.
C3_EndsAfterFailure ==
    \A k \in 1..Len(outs) :
        outs[k].kind = "Err" =>
            /\ \A m \in (k + 1)..Len(outs) : outs[m] = ItemNone
            /\ \A i \in 1..Len(fetched) : fetched[i].pull <= k

\* C3, amended: a pull whose fetch fails makes that one request and returns
\* one failure result carrying its error; the failure does not end the
\* sequence: the pull after it requests the same page again and returns what
\* that request gives (its error, its first song, or None for an empty page).
C3_FailureYieldedOnceThenRetried ==
    \A k \in 1..Len(outs) :
        outs[k].kind = "Err" =>
            /\ \E i \in 1..Len(fetched) :
                /\ FetchesOfPull(k) = {i}
                /\ ~fetched[i].response.ok
                /\ outs[k] = ItemErr(fetched[i].response.err)
                /\ k < Len(outs) =>
                    /\ FetchesOfPull(k + 1) = {i + 1}
                    /\ fetched[i + 1].page = fetched[i].page
                    /\ LET again == fetched[i + 1].response
                       IN  outs[k + 1] =
                            IF ~again.ok THEN ItemErr(again.err)
                            ELSE IF again.songs = <<>> THEN ItemNone
                            ELSE ItemOk(again.songs[1])

\* A pull failed and the pull after it fetched the same page and returned its
\* first song.
C3_Witness ==
    \E k \in 1..(Len(outs) - 1) :
        /\ outs[k].kind = "Err"
        /\ outs[k + 1].kind = "Ok"
        /\ \E i \in FetchesOfPull(k + 1) : fetched[i].response.ok

\* C4: a pull that returns a failure leaves the fields of the iterator as
\* they were: the buffer empty, next_page at the page that failed; and
\* next_page changes only in a pull that made a successful request for the
\* page it stood at.
C4_FailedFetchKeepsState ==
    [][/\ (outs' # outs /\ Last(outs').kind = "Err") =>
            /\ songs = <<>>
            /\ songs' = songs
            /\ next_page' = next_page
            /\ Len(fetched') = Len(fetched) + 1
            /\ next_page = Some(Last(fetched').page)
       /\ next_page' # next_page =>
            /\ Len(fetched') = Len(fetched) + 1
            /\ Last(fetched').response.ok
            /\ next_page = Some(Last(fetched').page)]_vars

\* The fetch of page 2 has just failed: the cursor still stands at page 2.
C4_Witness ==
    /\ outs # <<>>
    /\ LastOut.kind = "Err"
    /\ LastFetch.page = 2
    /\ LastFetch.pull = Len(outs)
    /\ next_page = Some(2)
    /\ songs = <<>>

RECURSIVE PagesItems(_)
\* The songs of the first n requests, page after page.
PagesItems(n) ==
    IF n = 0 THEN <<>> ELSE PagesItems(n - 1) \o fetched[n].response.songs

\* The songs insert_song_into_db was called with, in the order of the calls.
InsertedSongs == [i \in 1..Len(inserts) |-> inserts[i].song]

\* The storage engine wrote the row and reported one row changed.
Stored(ins) == ins.store = Store(TRUE, TRUE, 1)

\* C5: when the fetch of page N has failed in scrape_all_songs, the run has
\* ended with that error; the songs upserted in the run are exactly the songs
\* of pages 1..N-1, each upsert succeeded and left a row for its uid, nothing
\* of page N or later was upserted; the playlist was neither made nor saved.
C5_FetchAbort ==
    (fetched # <<>> /\ ~LastFetch.response.ok) =>
        LET N == Len(fetched)
        IN  /\ LastFetch.page = N
            /\ pc = "failed"
            /\ error = LastFetch.response.err
            /\ InsertedSongs = PagesItems(N - 1)
            /\ \A i \in 1..Len(inserts) :
                /\ Stored(inserts[i])
                /\ \E r \in db : r.uid = AsI64(inserts[i].song.uid)
            /\ ~aggregated
            /\ playlist = <<>>
            /\ file = Untouched

\* The fetch of page 2 failed after page 1 was stored.
C5_Witness ==
    /\ Len(fetched) = 2
    /\ ~LastFetch.response.ok
    /\ Len(inserts) >= LIMIT
    /\ InsertedSongs = fetched[1].response.songs
    /\ pc = "failed"

\* The fetch-and-store phase has succeeded in full: the iterator returned
\* songs and then None, every request succeeded, and every song returned was
\* upserted with success, one call each.
FetchAndStoreSucceeded ==
    /\ outs # <<>>
    /\ LastOut = ItemNone
    /\ \A k \in 1..(Len(outs) - 1) : outs[k].kind = "Ok"
    /\ \A i \in 1..Len(fetched) : fetched[i].response.ok
    /\ Len(inserts) = Len(outs) - 1
    /\ \A i \in 1..Len(inserts) :
        Stored(inserts[i]) /\ inserts[i].ok /\ inserts[i].song = outs[i].song

\* A request or an upsert of the run has failed.
FetchOrStoreFailed ==
    \/ \E i \in 1..Len(fetched) : ~fetched[i].response.ok
    \/ \E i \in 1..Len(inserts) : ~Stored(inserts[i])

\* C6: the playlist is made and saved only after the fetch-and-store phase
\* has succeeded in full; a failed request or upsert ends the run before
\* make_beatsaber_playlist is called; and once it has been called no upsert,
\* pull or request happens any more.
C6_ExportOnlyAfterSuccess ==
    /\ [](/\ (aggregated \/ pc \in {"playlist", "save", "close", "done"})
                => FetchAndStoreSucceeded
          /\ file # Untouched => aggregated
          /\ FetchOrStoreFailed =>
                pc = "failed" /\ ~aggregated /\ file = Untouched)
    /\ [][aggregated =>
            /\ db' = db
            /\ inserts' = inserts
            /\ outs' = outs
            /\ fetched' = fetched]_vars

\* A run over two pages that ended well, the playlist written in full.
C6_Witness ==
    /\ pc = "done"
    /\ file = Complete(playlist)
    /\ Len(fetched) = 2
    /\ Len(inserts) > LIMIT

\* The rows of a table under one uid.
RowsOfUid(table, uid) == {r \in table : r.uid = uid}

\* C7: the table holds at most one row per uid; a row upserted in this run
\* equals, column by column, the row of the latest successful upsert of its
\* uid; and a successful upsert leaves exactly its own row under its uid and
\* every row of another uid as it was.
C7_UpsertReplaces ==
    /\ [](/\ \A r1, r2 \in db : r1.uid = r2.uid => r1 = r2
          /\ \A i \in 1..Len(inserts) :
                (/\ inserts[i].ok
                 /\ \A j \in (i + 1)..Len(inserts) :
                        inserts[j].ok => inserts[j].song.uid # inserts[i].song.uid)
                => RowsOfUid(db, AsI64(inserts[i].song.uid)) = {Params(inserts[i].song)})
    /\ [][(inserts' # inserts /\ Last(inserts').ok) =>
            LET row == Params(Last(inserts').song)
            IN  /\ RowsOfUid(db', row.uid) = {row}
                /\ db' \ RowsOfUid(db', row.uid) = db \ RowsOfUid(db, row.uid)]_vars

\* Song1 and then Song5, the same uid with every other column changed, were
\* upserted into a table that held rows of other uids: one row of that uid is
\* left, the row of Song5, and the other rows are still there.
C7_Witness ==
    /\ Len(inserts) >= 2
    /\ inserts[1].song = Song1 /\ inserts[1].ok
    /\ inserts[2].song = Song5 /\ inserts[2].ok
    /\ Len(inserts) = 2
    /\ db = {Params(Song5), Params(Song3), Params(Song4)}

\* make_beatsaber_playlist has returned a playlist (the table has not changed
\* since: C6).
PlaylistMade == aggregated /\ error # "query"

\* The rows of the table under one hash, and the largest stars among them.
RowsOfHash(h) == {r \in db : r.id = h}
MaxStars(h) == CHOOSE m \in {r.stars : r \in RowsOfHash(h)} :
                    \A r \in RowsOfHash(h) : r.stars <= m

\* C8: the playlist has exactly one entry for every hash in the table and
\* none for another hash, and the name of an entry is the name of a row of
\* its hash whose stars are the largest among the rows of that hash.
C8_OneEntryPerHashWithMaxName ==
    PlaylistMade =>
        /\ {playlist[i].hash : i \in 1..Len(playlist)} = {r.id : r \in db}
        /\ \A i, j \in 1..Len(playlist) :
            i # j => playlist[i].hash # playlist[j].hash
        /\ \A i \in 1..Len(playlist) :
            \E r \in RowsOfHash(playlist[i].hash) :
                /\ r.name = playlist[i].name
                /\ \A q \in RowsOfHash(playlist[i].hash) : q.stars <= r.stars

\* The table holds two difficulties of hash 7719, Song1 fetched in this run
\* with 9.72 stars and Song4 with 9.38; the playlist names Song1.
C8_Witness ==
    /\ PlaylistMade
    /\ {Params(Song1), Params(Song4)} \subseteq db
    /\ \E i \in 1..Len(playlist) :
        playlist[i] = [name |-> Song1.name, hash |-> Song1.id]

\* C9: the playlist is in descending order of the largest stars of each
\* entry's hash.
C9_OrderedByMaxStarsDesc ==
    PlaylistMade =>
        \A i, j \in 1..Len(playlist) :
            i < j => MaxStars(playlist[i].hash) >= MaxStars(playlist[j].hash)

\* The three hashes of the test, in the order 10.08, 9.72, 9.38.
C9_Witness ==
    /\ PlaylistMade
    /\ Len(playlist) = 3
    /\ MaxStars(playlist[1].hash) = 1008
    /\ MaxStars(playlist[2].hash) = 972
    /\ MaxStars(playlist[3].hash) = 938

\* The songs the iterator has returned, in order.
IsOk(item) == item.kind = "Ok"
Yielded == SelectSeq(outs, IsOk)

\* C10: scrape_all_songs calls insert_song_into_db once for every song the
\* iterator returns, in that order (the song pulled last may still wait for
\* its call); an upsert that fails or reports a row count other than 1 is the
\* last thing the run does: it ends the run with an error, and no pull, no
\* request and no upsert follows it.
C10_OneUpsertPerItemFailFast ==
    /\ [](/\ Len(inserts) = Len(Yielded) - (IF pc = "insert" THEN 1 ELSE 0)
          /\ \A i \in 1..Len(inserts) : inserts[i].song = Yielded[i].song
          /\ \A i \in 1..Len(inserts) :
                ~Stored(inserts[i]) =>
                    /\ i = Len(inserts)
                    /\ pc = "failed"
                    /\ error \in {"prepare", "execute", "rows_affected is not 1"})
    /\ [][(inserts # <<>> /\ ~Stored(Last(inserts))) =>
            /\ outs' = outs
            /\ fetched' = fetched
            /\ inserts' = inserts
            /\ db' = db
            /\ pc' = pc]_vars

\* After one good upsert the engine reported no row changed for the second
\* song: the run has failed with songs still in the buffer.
C10_Witness ==
    /\ Len(inserts) = 2
    /\ Stored(inserts[1])
    /\ inserts[2].store = Store(TRUE, TRUE, 0)
    /\ pc = "failed"
    /\ error = "rows_affected is not 1"
    /\ songs # <<>>
    /\ next_page # None

\* C11, as claimed: ranked_songs.json is either as it was before the run or
\* holds the whole playlist; it is never left empty or cut short.
C11_FileUntouchedOrComplete ==
    \/ file = Untouched
    \/ file = Complete(playlist)

\* The songs the iterator has returned, in order.
YieldedSongs == [i \in 1..Len(Yielded) |-> Yielded[i].song]

\* No request has failed so far.
NoFetchFailed == \A i \in 1..Len(fetched) : fetched[i].response.ok

\* C12: while no request fails, the songs returned so far followed by the
\* songs still in the buffer are the songs of the pages fetched, page after
\* page and in the order of each page; and when the iterator has returned
\* None, the pages fetched are 1..k, page k is the first short one, and the
\* songs returned are exactly the songs of pages 1..k.
C12_YieldsPagesInOrder ==
    NoFetchFailed =>
        /\ YieldedSongs \o songs = PagesItems(Len(fetched))
        /\ \A n \in 1..Len(outs) : outs[n].kind # "Err"
        /\ (outs # <<>> /\ LastOut = ItemNone) =>
            LET k == Len(fetched)
            IN  /\ k >= 1
                /\ \A i \in 1..k : fetched[i].page = i
                /\ \A i \in 1..(k - 1) : Len(fetched[i].response.songs) >= LIMIT
                /\ Len(fetched[k].response.songs) < LIMIT
                /\ YieldedSongs = PagesItems(k)

\* Page 1 held two different songs, page 2 was short and not empty; all of
\* them were returned and then None.
C12_Witness ==
    /\ NoFetchFailed
    /\ Len(fetched) = 2
    /\ fetched[1].response.songs[1] # fetched[1].response.songs[2]
    /\ Len(fetched[2].response.songs) >= 1
    /\ LastOut = ItemNone
    /\ YieldedSongs = fetched[1].response.songs \o fetched[2].response.songs

\* C13: a request is made only inside a pull that finds the buffer empty and
\* a page pending, and it asks for that page; at that moment every song of
\* the pages fetched before has been returned and, in scrape_all_songs,
\* upserted with success.  Hence nothing is requested before the first pull,
\* and while no request fails no page is requested twice.
C13_FetchIsLazy ==
    /\ [](/\ outs = <<>> => fetched = <<>>
          /\ NoFetchFailed =>
                \A i, j \in 1..Len(fetched) :
                    i # j => fetched[i].page # fetched[j].page)
    /\ [][fetched' # fetched =>
            /\ songs = <<>>
            /\ next_page # None
            /\ Len(outs') = Len(outs) + 1
            /\ Len(fetched') = Len(fetched) + 1
            /\ Last(fetched').page = next_page[1]
            /\ Last(fetched').pull = Len(outs')
            /\ YieldedSongs = PagesItems(Len(fetched))
            /\ InsertedSongs = PagesItems(Len(fetched))
            /\ \A i \in 1..Len(inserts) : Stored(inserts[i])]_vars

\* Page 2 was requested in the pull after the LIMIT songs of page 1 had been
\* returned and upserted.
C13_Witness ==
    /\ Len(fetched) = 2
    /\ Len(fetched[1].response.songs) = LIMIT
    /\ fetched[2].pull = LIMIT + 1
    /\ Len(outs) = LIMIT + 1
    /\ Len(inserts) = LIMIT

\* The number of songs on page p of a listing of n songs cut into pages of
\* LIMIT songs.
PageLen(n, p) ==
    LET left == n - (p - 1) * LIMIT
    IN  IF left <= 0 THEN 0 ELSE IF left >= LIMIT THEN LIMIT ELSE left

\* Every request so far was answered as a remote side with a listing of n
\* songs answers it: with success and with the songs of the page asked for.
ServedListingOf(n) ==
    \A i \in 1..Len(fetched) :
        /\ fetched[i].response.ok
        /\ Len(fetched[i].response.songs) = PageLen(n, fetched[i].page)

\* C14: against a listing of n songs served in pages of LIMIT songs, with no
\* failure, the first n pulls return a song each and every later pull returns
\* None; by then n \div LIMIT + 1 requests have been made, no more and no
\* fewer, the last of them answered by the short page; when n is a positive
\* multiple of LIMIT that page is empty, it returns no song and no error, and
\* no request follows it.
C14_FetchCountOfListing ==
    \A n \in 0..(LIMIT * MaxPage) :
        ServedListingOf(n) =>
            /\ Len(fetched) <= (n \div LIMIT) + 1
            /\ \A k \in 1..Len(outs) :
                outs[k].kind = IF k <= n THEN "Ok" ELSE "None"
            /\ Len(outs) > n =>
                /\ Len(Yielded) = n
                /\ Len(fetched) = (n \div LIMIT) + 1
                /\ next_page = None
                /\ songs = <<>>
                /\ Len(LastFetch.response.songs) = n % LIMIT

\* A listing of exactly LIMIT songs: page 1 is full, page 2 is requested and
\* comes back empty, and the pulls after the LIMIT songs return None.
C14_Witness ==
    /\ ServedListingOf(LIMIT)
    /\ Len(fetched) = 2
    /\ LastFetch.response.songs = <<>>
    /\ Len(outs) = LIMIT + 2
    /\ outs[LIMIT + 1] = ItemNone
    /\ LastOut = ItemNone

\* C15: with the buffer empty and no page pending, a pull returns None, makes
\* no request and leaves the fields of the iterator as they are, so the same
\* holds of every pull after it.
C15_EndIsAbsorbing ==
    [][(songs = <<>> /\ next_page = None /\ outs' # outs) =>
            /\ outs' = Append(outs, ItemNone)
            /\ fetched' = fetched
            /\ songs' = songs
            /\ next_page' = next_page]_vars

\* After a song the iterator has returned None twice in a row and is still
\* at its end.
C15_Witness ==
    /\ Len(outs) >= 3
    /\ Yielded # <<>>
    /\ outs[Len(outs) - 1] = ItemNone
    /\ LastOut = ItemNone
    /\ songs = <<>>
    /\ next_page = None

\* C16: for a payload that decodes, with any limit, extract_ranked_songs_page
\* returns all the songs of the payload in their order, none cut off, and
\* last_page is true exactly when the payload has fewer songs than the limit.
C16_ExtractKeepsAllSongs ==
    (decoded.called /\ decoded.response.valid) =>
        /\ decoded.result.ok
        /\ decoded.result.songs = decoded.response.songs
        /\ decoded.result.last_page <=> Len(decoded.response.songs) < decoded.limit

\* The case of the test: one song more than the limit (4 songs for a limit of
\* 3 with LIMIT = 2); all are returned and the page is not the last.
C16_Witness ==
    /\ decoded.called
    /\ decoded.response.valid
    /\ decoded.limit = LIMIT + 1
    /\ Len(decoded.response.songs) = decoded.limit + 1
    /\ Len(decoded.result.songs) = decoded.limit + 1
    /\ ~decoded.result.last_page

\* The uids in a table.
Uids(table) == {r.uid : r \in table}

\* C17: no step of any run, ended well or not, takes a uid out of the table;
\* and the playlist a run makes has an entry for every hash in the table,
\* whichever run stored its rows.
C17_NothingDeletedAllHashesListed ==
    /\ [][Uids(db) \subseteq Uids(db')]_vars
    /\ [](PlaylistMade =>
            \A r \in db : \E i \in 1..Len(playlist) : playlist[i].hash = r.id)

\* A later run: the table held the row of Song1, which only an earlier run
\* can have stored, the listing was empty this time, and the playlist of the
\* run lists the hash of Song1.
C17_Witness ==
    /\ Params(Song1) \in db0
    /\ fetched # <<>>
    /\ NoFetchFailed
    /\ inserts = <<>>
    /\ pc = "done"
    /\ \E i \in 1..Len(playlist) :
        playlist[i] = [name |-> Song1.name, hash |-> Song1.id]

\* scrape_all_songs has returned Ok in this run.
FetchAndStoreDone == aggregated \/ pc \in {"playlist", "save", "close", "done"}

\* The places in the sequence of returned songs where a uid occurs for the
\* last time.
LastOccurrences ==
    {i \in 1..Len(YieldedSongs) :
        \A j \in (i + 1)..Len(YieldedSongs) :
            YieldedSongs[j].uid # YieldedSongs[i].uid}

\* C18: after scrape_all_songs has returned Ok the table is the table of the
\* start of the run with, for every uid among the songs returned, the one row
\* of the song returned last under that uid in place of whatever row the uid
\* had; the rows of the uids not returned are those of the start.
C18_LastOccurrenceWins ==
    FetchAndStoreDone =>
        db = {r \in db0 : \A i \in 1..Len(YieldedSongs) :
                              r.uid # AsI64(YieldedSongs[i].uid)}
             \cup {Params(YieldedSongs[i]) : i \in LastOccurrences}

\* The uid of Song1 came on page 1 as Song1 and on page 2 as Song5; the table
\* of the start held a row of that uid and the row of Song2; after the loop
\* it holds the row of Song5 and the row of Song2.
C18_Witness ==
    /\ pc = "playlist"
    /\ Len(fetched) = 2
    /\ \E i \in 1..Len(fetched[1].response.songs) :
        fetched[1].response.songs[i] = Song1
    /\ fetched[2].response.songs = <<Song5>>
    /\ \E r \in db0 : r.uid = AsI64(Song1.uid)
    /\ Params(Song2) \in db0
    /\ Params(Song5) \in db
    /\ Params(Song2) \in db
    /\ Params(Song1) \notin db

====
